---- MODULE Spec2Model ----
(***************************************************************************)
(* Model of scripts/generate_folium.py: generate_folium_map reads two      *)
(* yield files, prepares three data frames (2019, 2022, difference),       *)
(* registers one choropleth layer, one legend (colormap) and one           *)
(* BindColormap per frame on the folium map, adds the layer control and    *)
(* saves the page.  The saved page is then rendered by a browser, where    *)
(* the BindColormap scripts run and the user toggles the overlays.         *)
(*                                                                         *)
(* Numbers: raw trait values are in thousandths of t/ha, stored            *)
(* grain_yield values in hundredths (two decimals, as .round(2) leaves     *)
(* them).  A cell is [nan, v]; nan marks a missing value (pandas NaN).     *)
(***************************************************************************)
EXTENDS Integers, Sequences, FiniteSets, TLC

VARIABLES
    files,              \* the two input files: label -> row, as gpd.read_file returns them
    grain_yield_2019,   \* data frame: index label -> [uid, grain_yield]
    grain_yield_2022,
    grain_yield_diff,
    layerChildren,      \* cl219._children, cl2022._children, cl_diff._children (keys, in order)
    branca_color_map,   \* the local variable reused by the three "handle colormap" loops
    mChildren,          \* m._children, in insertion order
    pc,                 \* position in generate_folium_map
    err,                \* the exception that ended generate_folium_map, or "none"
    failedAt,           \* the step that raised it, or "none"
    output,             \* the output file: "none", "partial" or "complete"
    page,               \* the browser: "closed" or "rendered"
    onMap,              \* layer -> is it currently on the Leaflet map
    display,            \* colormap key -> style.display of its legend svg
    handlers,           \* the map's registered event handlers, in registration order
    overlays,           \* the overlays the layer control lists, in order
    toggled             \* has the user clicked a checkbox of the layer control yet

vars == <<files, grain_yield_2019, grain_yield_2022, grain_yield_diff,
          layerChildren, branca_color_map, mChildren, pc, err, failedAt,
          output, page, onMap, display, handlers, overlays, toggled>>

dataVars == <<grain_yield_2019, grain_yield_2022, grain_yield_diff>>
docVars == <<layerChildren, branca_color_map, mChildren>>
browserVars == <<page, onMap, display, handlers, overlays, toggled>>

----------------------------------------------------------------------------
(* Bounds and program constants *)

MaxRows == 2            \* rows per input file

Decimals == 2           \* .round(2)
ClipLo == 0             \* .clip(0, 11)
ClipHi == 11

Unit == 10 ^ Decimals                    \* stored values: hundredths of t/ha
RawUnit == 10 ^ (Decimals + 1)           \* raw values carry one more decimal digit
RawPerStored == RawUnit \div Unit

Labels == 0 .. (MaxRows - 1)
Uids == {"a", "b"}
GrainYield == "Grain Yield [t/ha]"

NaN == [nan |-> TRUE, v |-> 0]
Num(x) == [nan |-> FALSE, v |-> x]

\* raw trait values: -0.3, 3.204, 12.4 t/ha and a missing value
RawCells == {Num(-300), Num(3204), Num(12400), NaN}

FileRows ==
    {[trait_name |-> GrainYield, uid |-> u, trait_value |-> c] : u \in Uids, c \in RawCells}
    \cup {[trait_name |-> "Other", uid |-> "a", trait_value |-> Num(0)]}

\* _uid0_ is unique among the rows of one trait
FileContents ==
    {f \in [Labels -> FileRows] :
        \A i, j \in Labels :
            (i # j /\ f[i].trait_name = GrainYield /\ f[j].trait_name = GrainYield)
                => f[i].uid # f[j].uid}

----------------------------------------------------------------------------
(* The data pipeline *)

Min(a, b) == IF a < b THEN a ELSE b
Max(a, b) == IF a > b THEN a ELSE b

\* numpy round: to the nearest multiple of f, halves to the even neighbour
RoundHalfEven(x, f) ==
    LET q == x \div f
        r == x % f
    IN  IF 2 * r < f THEN q
        ELSE IF 2 * r > f THEN q + 1
        ELSE IF q % 2 = 0 THEN q ELSE q + 1

\* Series.round(2) on a raw cell
Round2(c) == IF c.nan THEN NaN ELSE Num(RoundHalfEven(c.v, RawPerStored))

\* a clip whose upper limit is one t/ha lower (the "between 0 and 10" of the comment)
ClipOneLower(c, lo, hi) ==
    IF c.nan THEN NaN ELSE Num(Max(lo * Unit, Min((hi - 1) * Unit, c.v)))

\* Series.clip(lo, hi) on a stored cell (lo, hi in t/ha)
Clip(c, lo, hi) == IF c.nan THEN NaN ELSE Num(Max(lo * Unit, Min(hi * Unit, c.v)))

\* df[df['trait_name'] == 'Grain Yield [t/ha]']: the rows keep their index labels
FilterTrait(file) ==
    [i \in {j \in DOMAIN file : file[j].trait_name = GrainYield} |-> file[i]]

\* filter, rename, round, clip
Prepare(file) ==
    LET kept == FilterTrait(file)
    IN  [i \in DOMAIN kept |->
            [uid |-> kept[i].uid,
             grain_yield |-> Clip(Round2(kept[i].trait_value), ClipLo, ClipHi)]]

\* Series - Series: aligned on the index label; a label without partner gives NaN
Subtract(a, b) == IF a.nan \/ b.nan THEN NaN ELSE Num(a.v - b.v)

\* .round(2) of a stored-precision cell
Round2Stored(c) ==
    IF c.nan THEN NaN ELSE Num(RoundHalfEven(c.v * RawPerStored, RawPerStored))

\* grain_yield_2022.copy() with grain_yield - grain_yield_2019['grain_yield'], rounded
Difference(y2022, y2019) ==
    [i \in DOMAIN y2022 |->
        [uid |-> y2022[i].uid,
         grain_yield |->
            Round2Stored(IF i \in DOMAIN y2019
                         THEN Subtract(y2022[i].grain_yield, y2019[i].grain_yield)
                         ELSE NaN)]]

----------------------------------------------------------------------------
(* The document *)

Layers == {"cl219", "cl2022", "cl_diff"}

LayerName(l) ==
    CASE l = "cl219" -> "Ertrag 2019"
      [] l = "cl2022" -> "Ertrag 2022"
      [] l = "cl_diff" -> "Ertragsdifferenz (2022-2019)"

\* every layer created with show=True
ShowFlagAll(l) == l \in {"cl219", "cl2022", "cl_diff"}

\* the show= argument of the three folium.Choropleth calls
ShowFlag(l) == l = "cl219"

\* element names: get_name() is the class prefix and the object's id
Key(prefix, id) == [prefix |-> prefix, id |-> id]
NoKey == Key("none", "")
Unbound == Key("unbound", "")
ColormapKeys == {Key("color_map", l) : l \in Layers}

Element(kind, name, layer, colormap, show) ==
    [kind |-> kind, name |-> name, layer |-> layer, colormap |-> colormap, show |-> show]

\* folium.Map(...): the map starts with its tile layer
TileLayer == Element("tile", Key("tile_layer", "cartodbpositron"), "", NoKey, TRUE)

\* folium.Choropleth(data=..., columns=...): the feature group's own children are
\* its GeoJson and then its color scale
ChoroplethChildren(l) == <<Key("geo_json", l), Key("color_map", l)>>

RemoveAt(s, i) == SubSeq(s, 1, i - 1) \o SubSeq(s, i + 1, Len(s))

\* for key in layer._children: if key.startswith('color_map'): take it and delete it.
\* _children is an OrderedDict: deleting the key the iterator stands on is only
\* tolerated when it is the last one.
RECURSIVE HandleColormapFrom(_, _, _)
HandleColormapFrom(keys, i, bcm) ==
    IF i > Len(keys) THEN [children |-> keys, bcm |-> bcm, err |-> "none"]
    ELSE IF keys[i].prefix = "color_map"
         THEN [children |-> RemoveAt(keys, i),
               bcm |-> keys[i],
               err |-> IF i < Len(keys) THEN "RuntimeError" ELSE "none"]
         ELSE HandleColormapFrom(keys, i + 1, bcm)

\* a loop that deletes the colormap key but keeps an already bound variable
HandleColormapKeepBound(keys, bcm) ==
    LET r == HandleColormapFrom(keys, 1, bcm)
    IN  IF bcm.prefix = "color_map" THEN [r EXCEPT !.bcm = bcm] ELSE r

HandleColormap(keys, bcm) == HandleColormapFrom(keys, 1, bcm)

\* an add_child that puts the new child first
AddChildFront(children, e) ==
    IF \E i \in 1 .. Len(children) : children[i].name = e.name
    THEN [i \in 1 .. Len(children) |->
            IF children[i].name = e.name THEN e ELSE children[i]]
    ELSE <<e>> \o children

\* Element.add_child: self._children[child.get_name()] = child
AddChild(children, e) ==
    IF \E i \in 1 .. Len(children) : children[i].name = e.name
    THEN [i \in 1 .. Len(children) |->
            IF children[i].name = e.name THEN e ELSE children[i]]
    ELSE Append(children, e)

ChoroplethElement(l) == Element("choropleth", Key("choropleth", l), l, NoKey, ShowFlag(l))
ColormapElement(k) == Element("colormap", k, "", k, TRUE)
\* BindColormap(layer, colormap)
BindColormap(l, k) == Element("bind", Key("bind_colormap", l), l, k, TRUE)
LayerControl == Element("control", Key("layer_control", ""), "", NoKey, TRUE)

----------------------------------------------------------------------------
(* generate_folium_map, statement by statement *)

Steps == <<"read2019", "cl219", "read2022", "cl2022", "diff", "cl_diff",
           "control", "save", "done">>

StepIndex(s) == CHOOSE i \in 1 .. Len(Steps) : Steps[i] = s
NextStep(s) == Steps[StepIndex(s) + 1]

\* an exception that is recorded and swallowed: the function goes on
AbortSwallowed(e) ==
    /\ pc' = NextStep(pc)
    /\ err' = e
    /\ failedAt' = pc

\* an uncaught exception ends generate_folium_map
Abort(e) ==
    /\ pc' = "failed"
    /\ err' = e
    /\ failedAt' = pc

Continue ==
    /\ pc' = NextStep(pc)
    /\ UNCHANGED <<err, failedAt>>

EmptyFrame == [i \in {} |-> 0]

Init ==
    /\ files \in [y2019 : FileContents, y2022 : FileContents]
    /\ grain_yield_2019 = EmptyFrame
    /\ grain_yield_2022 = EmptyFrame
    /\ grain_yield_diff = EmptyFrame
    /\ layerChildren = [l \in Layers |-> <<>>]
    /\ branca_color_map = Unbound
    /\ mChildren = <<TileLayer>>
    /\ pc = "read2019"
    /\ err = "none"
    /\ failedAt = "none"
    /\ output = "none"
    /\ page = "closed"
    /\ onMap = [l \in Layers |-> FALSE]
    /\ display = [k \in ColormapKeys |-> "absent"]
    /\ handlers = <<>>
    /\ overlays = <<>>
    /\ toggled = FALSE

\* gpd.read_file and the filter / rename / round / clip statements of one year
ReadOutcomes == {"ok", "IOError", "KeyError"}

Read2019 ==
    /\ pc = "read2019"
    /\ \E outcome \in ReadOutcomes :
        IF outcome = "ok"
        THEN /\ grain_yield_2019' = Prepare(files.y2019)
             /\ Continue
        ELSE /\ Abort(outcome)
             /\ UNCHANGED grain_yield_2019
    /\ UNCHANGED <<files, grain_yield_2022, grain_yield_diff, docVars, output, browserVars>>

Read2022 ==
    /\ pc = "read2022"
    /\ \E outcome \in ReadOutcomes :
        IF outcome = "ok"
        THEN /\ grain_yield_2022' = Prepare(files.y2022)
             /\ Continue
        ELSE /\ Abort(outcome)
             /\ UNCHANGED grain_yield_2022
    /\ UNCHANGED <<files, grain_yield_2019, grain_yield_diff, docVars, output, browserVars>>

ComputeDiff ==
    /\ pc = "diff"
    /\ grain_yield_diff' = Difference(grain_yield_2022, grain_yield_2019)
    /\ Continue
    /\ UNCHANGED <<files, grain_yield_2019, grain_yield_2022, docVars, output, browserVars>>

\* folium.Choropleth(...), the "handle colormap" loop and the three m.add_child calls
AddLayer(l, frame) ==
    /\ pc = l
    /\ \E built \in (IF DOMAIN frame = {} THEN BOOLEAN ELSE {TRUE}) :
        IF ~built
        THEN /\ Abort("ValueError")
             /\ UNCHANGED docVars
        ELSE LET r == HandleColormap(ChoroplethChildren(l), branca_color_map)
             IN  /\ layerChildren' = [layerChildren EXCEPT ![l] = r.children]
                 /\ branca_color_map' = r.bcm
                 /\ IF r.err # "none"
                    THEN /\ Abort(r.err)
                         /\ UNCHANGED mChildren
                    ELSE IF r.bcm = Unbound
                    THEN /\ Abort("UnboundLocalError")
                         /\ mChildren' = AddChild(mChildren, ChoroplethElement(l))
                    ELSE /\ Continue
                         /\ mChildren' =
                                AddChild(AddChild(AddChild(mChildren,
                                    ChoroplethElement(l)),
                                    ColormapElement(r.bcm)),
                                    BindColormap(l, r.bcm))
    /\ UNCHANGED <<files, dataVars, output, browserVars>>

AddLayer2019 == AddLayer("cl219", grain_yield_2019)
AddLayer2022 == AddLayer("cl2022", grain_yield_2022)
AddLayerDiff == AddLayer("cl_diff", grain_yield_diff)

\* m.add_child(folium.map.LayerControl(collapsed=False))
AddLayerControl ==
    /\ pc = "control"
    /\ mChildren' = AddChild(mChildren, LayerControl)
    /\ Continue
    /\ UNCHANGED <<files, dataVars, layerChildren, branca_color_map, output, browserVars>>

\* m.save(...): the page is rendered to a string and written; the write may fail
Save ==
    /\ pc = "save"
    /\ \E result \in {"complete", "partial", "none"} :
        /\ output' = result
        /\ IF result = "complete" THEN Continue ELSE Abort("IOError")
    /\ UNCHANGED <<files, dataVars, docVars, browserVars>>

----------------------------------------------------------------------------
(* The saved page in the browser *)

\* a handler without the eventLayer.layer test
HandlerFiresAnyLayer(h, event, layer) == h.event = event

\* the test of a BindColormap handler: the event's name and
\* eventLayer.layer == this.layer
HandlerFires(h, event, layer) == h.event = event /\ h.layer = layer

RECURSIVE DispatchFrom(_, _, _, _, _)
DispatchFrom(hs, i, event, layer, d) ==
    IF i > Len(hs) THEN d
    ELSE DispatchFrom(hs, i + 1, event, layer,
            IF HandlerFires(hs[i], event, layer) /\ hs[i].colormap \in DOMAIN d
            THEN [d EXCEPT ![hs[i].colormap] =
                    IF event = "overlayadd" THEN "block" ELSE "none"]
            ELSE d)

\* map.fire(event, {layer: layer}): every handler registered runs, in order
Dispatch(hs, event, layer, d) == DispatchFrom(hs, 1, event, layer, d)

\* the script of a BindColormap: the legend is set to 'block', then the two handlers
\* are registered on the map
BindScript(e, st) ==
    [st EXCEPT
        !.display = IF e.colormap \in DOMAIN st.display
                    THEN [st.display EXCEPT ![e.colormap] = "block"]
                    ELSE st.display,
        !.handlers = st.handlers \o
            <<[event |-> "overlayadd", layer |-> e.layer, colormap |-> e.colormap],
              [event |-> "overlayremove", layer |-> e.layer, colormap |-> e.colormap]>>]

\* the layer control removes, one by one, the overlays created with show=False;
\* the control listens to each removal and fires overlayremove on the map
RECURSIVE UntoggleFrom(_, _, _)
UntoggleFrom(doc, i, st) ==
    IF i > Len(doc) THEN st
    ELSE UntoggleFrom(doc, i + 1,
            IF doc[i].kind = "choropleth" /\ ~doc[i].show
            THEN [st EXCEPT
                    !.onMap = [st.onMap EXCEPT ![doc[i].layer] = FALSE],
                    !.display = Dispatch(st.handlers, "overlayremove", doc[i].layer,
                                         st.display)]
            ELSE st)

ChoroplethsOf(doc) == SelectSeq(doc, LAMBDA e : e.kind = "choropleth")

LayersListed(doc) ==
    LET cs == ChoroplethsOf(doc) IN [i \in 1 .. Len(cs) |-> cs[i].layer]

\* The scripts of the map's children run in the order of m._children.  folium's
\* releases differ in how a show=False overlay stays off the map: either it is
\* added and the layer control removes it again (untoggle), or it is never added.
RECURSIVE RenderFrom(_, _, _, _)
RenderFrom(doc, i, st, untoggle) ==
    IF i > Len(doc) THEN st
    ELSE LET e == doc[i]
             st2 ==
                CASE e.kind = "choropleth" ->
                        [st EXCEPT !.onMap = [st.onMap EXCEPT ![e.layer] = untoggle \/ e.show]]
                  [] e.kind = "colormap" ->
                        [st EXCEPT !.display = [st.display EXCEPT ![e.name] = "default"]]
                  [] e.kind = "bind" -> BindScript(e, st)
                  [] e.kind = "control" ->
                        LET listed == [st EXCEPT !.overlays = LayersListed(doc)]
                        IN  IF untoggle THEN UntoggleFrom(doc, 1, listed) ELSE listed
                  [] OTHER -> st
         IN  RenderFrom(doc, i + 1, st2, untoggle)

Render ==
    /\ output = "complete"
    /\ page = "closed"
    /\ \E untoggle \in BOOLEAN :
        LET st == RenderFrom(mChildren, 1,
                    [onMap |-> onMap, display |-> display,
                     handlers |-> handlers, overlays |-> overlays], untoggle)
        IN  /\ onMap' = st.onMap
            /\ display' = st.display
            /\ handlers' = st.handlers
            /\ overlays' = st.overlays
    /\ page' = "rendered"
    /\ UNCHANGED <<files, dataVars, docVars, pc, err, failedAt, output, toggled>>

Listed(l) == \E i \in 1 .. Len(overlays) : overlays[i] = l

\* the user ticks the checkbox of overlay l: the layer is added, overlayadd fires
UserShow(l) ==
    /\ page = "rendered"
    /\ Listed(l)
    /\ ~onMap[l]
    /\ onMap' = [onMap EXCEPT ![l] = TRUE]
    /\ display' = Dispatch(handlers, "overlayadd", l, display)
    /\ toggled' = TRUE
    /\ UNCHANGED <<files, dataVars, docVars, pc, err, failedAt, output, page,
                   handlers, overlays>>

\* the user unticks it: the layer is removed, overlayremove fires
UserHide(l) ==
    /\ page = "rendered"
    /\ Listed(l)
    /\ onMap[l]
    /\ onMap' = [onMap EXCEPT ![l] = FALSE]
    /\ display' = Dispatch(handlers, "overlayremove", l, display)
    /\ toggled' = TRUE
    /\ UNCHANGED <<files, dataVars, docVars, pc, err, failedAt, output, page,
                   handlers, overlays>>

Next ==
    \/ Read2019
    \/ AddLayer2019
    \/ Read2022
    \/ AddLayer2022
    \/ ComputeDiff
    \/ AddLayerDiff
    \/ AddLayerControl
    \/ Save
    \/ Render
    \/ \E l \in Layers : UserShow(l)
    \/ \E l \in Layers : UserHide(l)

Spec == Init /\ [][Next]_vars

----------------------------------------------------------------------------
(* Vocabulary of the properties *)

Binds == {i \in 1 .. Len(mChildren) : mChildren[i].kind = "bind"}
BindsOf(l) == {i \in Binds : mChildren[i].layer = l}
Registered(l) ==
    \E i \in 1 .. Len(mChildren) :
        mChildren[i].kind = "choropleth" /\ mChildren[i].layer = l
Displayed(k) == display[k] \in {"default", "block"}
LegendsListed ==
    LET cs == SelectSeq(mChildren, LAMBDA e : e.kind = "colormap")
    IN  [i \in 1 .. Len(cs) |-> cs[i].name]
Controls == {i \in 1 .. Len(mChildren) : mChildren[i].kind = "control"}
LayerOrder == <<"cl219", "cl2022", "cl_diff">>

\* the step `s` has been executed (it completed or it raised)
Attempted(s) ==
    IF pc = "failed" THEN StepIndex(failedAt) >= StepIndex(s)
    ELSE StepIndex(pc) > StepIndex(s)
\* the step `s` has completed without raising
Completed(s) ==
    IF pc = "failed" THEN StepIndex(failedAt) > StepIndex(s)
    ELSE StepIndex(pc) > StepIndex(s)

FrameOf(l) ==
    CASE l = "cl219" -> grain_yield_2019
      [] l = "cl2022" -> grain_yield_2022
      [] l = "cl_diff" -> grain_yield_diff

PreSaveSteps == {"read2019", "cl219", "read2022", "cl2022", "diff", "cl_diff", "control"}

----------------------------------------------------------------------------
(* Properties *)

\* C1: in every rendered state (the initial render and after any toggles), the
\* legend bound to a layer is displayed if and only if the layer is on the map.
C1_LegendFollowsLayer ==
    page = "rendered" =>
        \A l \in Layers : \A i \in BindsOf(l) :
            Displayed(mChildren[i].colormap) <=> onMap[l]

\* C2: the saved document has exactly one layer shown by default, 'Ertrag 2019';
\* at the initial render the layer control lists the three layers and only that
\* one is on the map (checked).
C2_OneLayerShownByDefault ==
    /\ pc = "done" =>
          /\ {l \in Layers : \E i \in 1 .. Len(mChildren) :
                  /\ mChildren[i].kind = "choropleth"
                  /\ mChildren[i].layer = l
                  /\ mChildren[i].show} = {"cl219"}
          /\ LayerName("cl219") = "Ertrag 2019"
          /\ \A l \in Layers : Registered(l)
    /\ (page = "rendered" /\ ~toggled) =>
          /\ {l \in Layers : Listed(l)} = Layers
          /\ {l \in Layers : onMap[l]} = {"cl219"}

C2_Witness ==
    /\ page = "rendered"
    /\ ~toggled
    /\ Len(overlays) = 3
    /\ onMap["cl219"]
    /\ ~onMap["cl2022"]

\* C3: for every identifier present in both prepared frames, the difference
\* frame holds, for that identifier, the stored 2022 value minus the stored
\* 2019 value of the same identifier.
C3_DifferencePerIdentifier ==
    Completed("diff") =>
        \A i \in DOMAIN grain_yield_2019 : \A j \in DOMAIN grain_yield_2022 :
            grain_yield_2019[i].uid = grain_yield_2022[j].uid =>
                \E k \in DOMAIN grain_yield_diff :
                    /\ grain_yield_diff[k].uid = grain_yield_2022[j].uid
                    /\ grain_yield_diff[k].grain_yield =
                          Subtract(grain_yield_2022[j].grain_yield,
                                   grain_yield_2019[i].grain_yield)

\* the stored value of every row is a number in [0, 11] equal to the clamped raw value
StoredIsRawClamped(file, frame) ==
    \A i \in DOMAIN frame :
        /\ ~frame[i].grain_yield.nan
        /\ frame[i].grain_yield.v >= ClipLo * Unit
        /\ frame[i].grain_yield.v <= ClipHi * Unit
        /\ frame[i].grain_yield.v * RawPerStored =
              Max(ClipLo * RawUnit, Min(ClipHi * RawUnit, file[i].trait_value.v))

\* the stored value of every row with a raw value is the nearest two-decimal
\* number, clamped; a row without a raw value stores none
StoredIsRoundedThenClamped(file, frame) ==
    \A i \in DOMAIN frame :
        LET raw == file[i].trait_value
            stored == frame[i].grain_yield
        IN  IF raw.nan THEN stored.nan
            ELSE /\ ~stored.nan
                 /\ stored.v >= ClipLo * Unit
                 /\ stored.v <= ClipHi * Unit
                 /\ \E n \in (raw.v \div RawPerStored) .. (raw.v \div RawPerStored + 1) :
                        /\ 2 * (n * RawPerStored - raw.v) <= RawPerStored
                        /\ 2 * (raw.v - n * RawPerStored) <= RawPerStored
                        /\ stored.v = Max(ClipLo * Unit, Min(ClipHi * Unit, n))
                 /\ raw.v > ClipHi * RawUnit => stored.v = ClipHi * Unit
                 /\ raw.v < ClipLo * RawUnit => stored.v = ClipLo * Unit

C5_InvalidInputRejected ==
    \A l \in Layers :
        (/\ Attempted(l)
         /\ \/ DOMAIN FrameOf(l) = {}
            \/ \E i \in DOMAIN FrameOf(l) : FrameOf(l)[i].grain_yield.nan)
        => /\ pc = "failed"
           /\ failedAt = l
           /\ err = "InvalidInputError"
           /\ ~Registered(l)

\* C6: a failure of any step before the save ends generate_folium_map with the
\* error and without an output file; an output file is only written after both
\* reads and the three layer registrations have succeeded.
C6_NoOutputAfterFailure ==
    /\ failedAt \in PreSaveSteps =>
          /\ pc = "failed"
          /\ err # "none"
          /\ output = "none"
          /\ page = "closed"
    /\ output # "none" =>
          /\ \A s \in PreSaveSteps : Completed(s)
          /\ \A l \in Layers : Registered(l) /\ BindsOf(l) # {}

C6_Witness ==
    /\ pc = "failed"
    /\ failedAt = "read2022"
    /\ err = "IOError"
    /\ Registered("cl219")
    /\ output = "none"

\* C7: when generate_folium_map completes, the map holds the three layers and
\* the three legends in registration order, then exactly one layer control,
\* added last, which lists the three layers in that order.
C7_DocumentStructure ==
    /\ pc = "done" =>
          /\ LayersListed(mChildren) = LayerOrder
          /\ LegendsListed = [i \in 1 .. 3 |-> Key("color_map", LayerOrder[i])]
          /\ Cardinality(Controls) = 1
          /\ mChildren[Len(mChildren)].kind = "control"
    /\ page = "rendered" => overlays = LayerOrder

C7_Witness ==
    /\ pc = "done"
    /\ page = "rendered"
    /\ Len(overlays) = 3
    /\ Cardinality(Binds) = 3

\* C8: at the initial render, before any toggle, the legend of each binding is
\* displayed if and only if the bound layer was created with show=True.
C8_InitialLegendMatchesShow ==
    (page = "rendered" /\ ~toggled) =>
        \A i \in Binds :
            Displayed(mChildren[i].colormap) <=> ShowFlag(mChildren[i].layer)

\* C9: an overlayadd / overlayremove event for a layer sets the display of the
\* legend bound to that layer to block / none and leaves the display of every
\* other binding's legend as it was.
C9_EventTouchesOnlyOwnLegend ==
    [][(page = "rendered" /\ page' = "rendered") =>
        \A l \in Layers :
            onMap'[l] # onMap[l] =>
                \A i \in Binds :
                    display'[mChildren[i].colormap] =
                        IF mChildren[i].layer = l
                        THEN (IF onMap'[l] THEN "block" ELSE "none")
                        ELSE display[mChildren[i].colormap]]_vars

C9_Witness ==
    /\ page = "rendered"
    /\ toggled
    /\ onMap["cl2022"] /\ display[Key("color_map", "cl2022")] = "block"
    /\ ~onMap["cl219"] /\ display[Key("color_map", "cl219")] = "none"
    /\ ~onMap["cl_diff"] /\ display[Key("color_map", "cl_diff")] = "none"

\* C10: every registered layer has exactly one binding, to the colormap taken
\* out of its own children; the layer keeps no colormap child; no colormap is
\* bound to two layers; on completion all three layers are bound.
C10_OwnLegendBound ==
    /\ \A l \in Layers :
          Registered(l) =>
              /\ Cardinality(BindsOf(l)) = 1
              /\ \A i \in BindsOf(l) : mChildren[i].colormap = Key("color_map", l)
              /\ \A j \in 1 .. Len(layerChildren[l]) :
                    layerChildren[l][j].prefix # "color_map"
    /\ \A i, j \in Binds :
          mChildren[i].colormap = mChildren[j].colormap => i = j
    /\ pc = "done" => \A l \in Layers : Registered(l)

C10_Witness ==
    /\ pc = "done"
    /\ branca_color_map = Key("color_map", "cl_diff")
    /\ \A l \in Layers : BindsOf(l) # {} /\ layerChildren[l] = <<Key("geo_json", l)>>

====
